---- MODULE Spec2Model ----
(***************************************************************************)
(* Model of kernelmethods/numeric_kernels.py: the five kernel functions    *)
(* (PolyKernel, GaussianKernel, LaplacianKernel, SigmoidKernel,            *)
(* LinearKernel), their constructors, their __call__ and __str__ methods   *)
(* and the module-level registry DEFINED_KERNEL_FUNCS.                     *)
(*                                                                         *)
(* Real numbers are exact rationals <<n, d>> in lowest terms with d > 0,   *)
(* so equality of tuples is equality of numbers.  exp and tanh are kept    *)
(* symbolic: a kernel value is [fn, arg] meaning arg, exp(arg) or          *)
(* tanh(arg); exp and tanh are injective, exp(0) = 1 and tanh(0) = 0 are   *)
(* folded, so equality of these records is equality of the real values.    *)
(***************************************************************************)
EXTENDS Integers, Sequences, FiniteSets, TLC

VARIABLES objs, DEFINED_KERNEL_FUNCS, ctor, call, pool

vars == <<objs, DEFINED_KERNEL_FUNCS, ctor, call, pool>>

(***************************************************************************)
(* Bounds of the model.                                                    *)
(***************************************************************************)
\* longest sample vector drawn as an input
MaxDim == 2
\* machine epsilon is modelled as 1 / EpsDen (numpy's is 2^-52)
EpsDen == 16

\* entries of the sample vectors
Vals == {-1, 0, 1}

(***************************************************************************)
(* Exact rational arithmetic.                                              *)
(***************************************************************************)
Abs(a) == IF a < 0 THEN -a ELSE a

RECURSIVE Gcd(_, _)
Gcd(a, b) == IF b = 0 THEN a ELSE Gcd(b, a % b)

\* the rational n/d (d # 0) in lowest terms with a positive denominator
Rat(n, d) ==
    LET g == Gcd(Abs(n), Abs(d))
        s == IF d < 0 THEN -1 ELSE 1
    IN  <<(s * n) \div g, (s * d) \div g>>

RatInt(i) == <<i, 1>>
RatAdd(p, q) == Rat(p[1] * q[2] + q[1] * p[2], p[2] * q[2])
RatMul(p, q) == Rat(p[1] * q[1], p[2] * q[2])
RatNeg(p) == <<-p[1], p[2]>>
RatLeq(p, q) == p[1] * q[2] <= q[1] * p[2]
RatLt(p, q) == p[1] * q[2] < q[1] * p[2]
RatMax(p, q) == IF RatLeq(p, q) THEN q ELSE p

RECURSIVE IntPow(_, _)
IntPow(a, k) == IF k = 0 THEN 1 ELSE a * IntPow(a, k - 1)

\* numpy.finfo(float).eps, scaled to the model
Eps == Rat(1, EpsDen)

(***************************************************************************)
(* Inputs a caller can pass.  A numeric sample is a 1-D ndarray of         *)
(* numbers; the non-numeric inputs are the three the test suite passes:    *)
(* 'string', (True, False, True) and [object, object].  data holds the     *)
(* elements (characters as code points, booleans as 0/1, object            *)
(* references as 0).                                                       *)
(***************************************************************************)
Vectors == UNION {[1..n -> Vals] : n \in 1..MaxDim}

NumericArray(v) == [container |-> "ndarray", dtype |-> "number", data |-> v]

NumericArrays == {NumericArray(v) : v \in Vectors}

StringInput == [container |-> "str", dtype |-> "str",
                data |-> <<115, 116, 114, 105, 110, 103>>]

BoolTupleInput == [container |-> "tuple", dtype |-> "bool", data |-> <<1, 0, 1>>]

ObjectListInput == [container |-> "list", dtype |-> "object", data |-> <<0, 0>>]

NonNumericInputs == {StringInput, BoolTupleInput, ObjectListInput}

AllInputs == NumericArrays \cup NonNumericInputs

NoInput == [container |-> "none", dtype |-> "none", data |-> <<>>]

IsNumeric(x) == x.dtype = "number"

IsArray(x) == x.container = "ndarray"

(***************************************************************************)
(* Outcomes of a call.  kind is "value", or the error raised:              *)
(*   "validation_error"  ValueError raised by check_input_arrays           *)
(*   "AttributeError"    .dot / .T looked up on a str, tuple or list       *)
(*   "TypeError"         arithmetic on str / object elements               *)
(*   "shape_error"       numpy's ValueError for operands of unequal shape  *)
(*   "non_finite"        0 ** negative: numpy yields inf with a            *)
(*                       divide-by-zero RuntimeWarning for floats and      *)
(*                       raises ValueError for integer operands            *)
(***************************************************************************)
NoVal == [fn |-> "none", arg |-> <<0, 1>>]

NumVal(r) == [fn |-> "id", arg |-> r]

ExpVal(r) == IF r = <<0, 1>> THEN NumVal(<<1, 1>>) ELSE [fn |-> "exp", arg |-> r]

TanhVal(r) == IF r = <<0, 1>> THEN NumVal(<<0, 1>>) ELSE [fn |-> "tanh", arg |-> r]

Value(v) == [kind |-> "value", val |-> v]

Raised(kind) == [kind |-> kind, val |-> NoVal]

NoResult == Raised("none")

\* intermediate results of array operations
Ok(v) == [ok |-> TRUE, err |-> "none", v |-> v]

Err(kind) == [ok |-> FALSE, err |-> kind, v |-> <<>>]

(***************************************************************************)
(* numpy operations used by the formulas.                                  *)
(***************************************************************************)
RECURSIVE SumSeq(_)
SumSeq(s) == IF s = <<>> THEN 0 ELSE Head(s) + SumSeq(Tail(s))

\* faulty variant of Dot: the last term is left out
DotDropLast(u, v) == SumSeq([i \in 1..(Len(u) - 1) |-> u[i] * v[i]])

\* inner product of two equally long numeric sequences
Dot(u, v) == SumSeq([i \in 1..Len(u) |-> u[i] * v[i]])

\* x.dot(y.T): both attributes exist on ndarrays only
DotMethod(x, y) ==
    IF ~IsArray(x) \/ ~IsArray(y) THEN Err("AttributeError")
    ELSE IF Len(x.data) # Len(y.data) THEN Err("shape_error")
    ELSE Ok(Dot(x.data, y.data))

\* np.dot(x, y): converts array-likes; str and object elements do not multiply,
\* two boolean operands give a boolean (any of the pairwise ands)
NpDot(x, y) ==
    IF x.dtype \in {"str", "object"} \/ y.dtype \in {"str", "object"}
        THEN Err("TypeError")
    ELSE IF Len(x.data) # Len(y.data) THEN Err("shape_error")
    ELSE IF x.dtype = "bool" /\ y.dtype = "bool"
        THEN Ok(IF \E i \in 1..Len(x.data) : x.data[i] * y.data[i] = 1 THEN 1 ELSE 0)
    ELSE Ok(Dot(x.data, y.data))

\* x - y: elementwise with broadcasting of a length-1 operand; needs an ndarray
\* operand to reach numpy at all, and numeric (or boolean) elements
Subtract(x, y) ==
    IF ~IsArray(x) /\ ~IsArray(y) THEN Err("TypeError")
    ELSE IF x.dtype \in {"str", "object"} \/ y.dtype \in {"str", "object"}
        THEN Err("TypeError")
    ELSE IF Len(x.data) = Len(y.data)
        THEN Ok([i \in 1..Len(x.data) |-> x.data[i] - y.data[i]])
    ELSE IF Len(x.data) = 1
        THEN Ok([i \in 1..Len(y.data) |-> x.data[1] - y.data[i]])
    ELSE IF Len(y.data) = 1
        THEN Ok([i \in 1..Len(x.data) |-> x.data[i] - y.data[1]])
    ELSE Err("shape_error")

\* np.linalg.norm(d, ord=2) ** 2 in exact arithmetic
Norm2Sq(d) == SumSeq([i \in 1..Len(d) |-> d[i] * d[i]])

\* faulty variant of SumAbs: np.abs is left out
SumDiffSigned(d) == SumSeq(d)

\* np.sum(np.abs(d))
SumAbs(d) == SumSeq([i \in 1..Len(d) |-> Abs(d[i])])

\* base ** degree for an integer degree
Power(base, degree) ==
    IF degree >= 0 THEN Value(NumVal(RatInt(IntPow(base, degree))))
    ELSE IF base = 0 THEN Raised("non_finite")
    ELSE Value(NumVal(Rat(1, IntPow(base, -degree))))

(***************************************************************************)
(* kernelmethods.utils: the two helpers the kernels import.                *)
(***************************************************************************)
\* _ensure_min_eps(x): max(x, eps)
EnsureMinEps(r) == RatMax(r, Eps)

\* check_input_arrays(x, y, ensure_dtype=np.number): both numeric and of
\* equal length, returned as arrays; otherwise a validation error
CheckInputArrays(x, y) ==
    IF IsNumeric(x) /\ IsNumeric(y) /\ Len(x.data) = Len(y.data)
        THEN Ok(<<NumericArray(x.data), NumericArray(y.data)>>)
    ELSE Err("validation_error")

(***************************************************************************)
(* Constructors.  Each returns Ok(instance) or Err(exception).             *)
(***************************************************************************)
\* PolyKernel.__init__(degree, b, skip_input_checks): parameters stored as given
PolyInit(degree, b, skip) ==
    Ok([name |-> "polynomial", degree |-> degree, b |-> b,
        skip_input_checks |-> skip])

\* 1.0 / (2 * sigma ** 2): Python raises ZeroDivisionError on a zero divisor
HalfInvSquare(sigma) ==
    LET den == RatMul(RatInt(2), RatMul(sigma, sigma))
    IN  IF den[1] = 0 THEN Err("ZeroDivisionError")
        ELSE Ok(Rat(den[2], den[1]))

\* faulty variant of GaussianInit: sigma is stored without the floor
GaussianInitSigmaUnfloored(sigma, skip) ==
    LET g == HalfInvSquare(sigma)
    IN  IF ~g.ok THEN Err(g.err)
        ELSE Ok([name |-> "gaussian", sigma |-> sigma, gamma |-> EnsureMinEps(g.v),
                 skip_input_checks |-> skip])

\* faulty variant of GaussianInit: gamma is stored without the floor
GaussianInitGammaUnfloored(sigma, skip) ==
    LET s == EnsureMinEps(sigma)
        g == HalfInvSquare(s)
    IN  IF ~g.ok THEN Err(g.err)
        ELSE Ok([name |-> "gaussian", sigma |-> s, gamma |-> g.v,
                 skip_input_checks |-> skip])

\* GaussianKernel.__init__(sigma, skip_input_checks): sigma floored to eps,
\* gamma = 1/(2 sigma^2) floored to eps
GaussianInit(sigma, skip) ==
    LET s == EnsureMinEps(sigma)
        g == HalfInvSquare(s)
    IN  IF ~g.ok THEN Err(g.err)
        ELSE Ok([name |-> "gaussian", sigma |-> s, gamma |-> EnsureMinEps(g.v),
                 skip_input_checks |-> skip])

\* LaplacianKernel.__init__(gamma, skip_input_checks): gamma stored as given
LaplacianInit(gamma, skip) ==
    Ok([name |-> "laplacian", gamma |-> gamma, skip_input_checks |-> skip])

\* SigmoidKernel.__init__(gamma, offset, skip_input_checks): stored as given
SigmoidInit(gamma, offset, skip) ==
    Ok([name |-> "sigmoid", gamma |-> gamma, offset |-> offset,
        skip_input_checks |-> skip])

\* LinearKernel.__init__(skip_input_checks)
LinearInit(skip) == Ok([name |-> "linear", skip_input_checks |-> skip])

(***************************************************************************)
(* __call__: the validation guard and the formula of each kernel.          *)
(***************************************************************************)
\* faulty variant of ChecksEnabled: the flag is read the wrong way round
ChecksInverted(self) == self.skip_input_checks

\* if not self.skip_input_checks: (the same line in all five kernels)
ChecksEnabled(self) == ~self.skip_input_checks

\* faulty variant of PolyFormula: the intercept multiplies the inner product
PolyFormulaProduct(self, x, y) ==
    LET d == DotMethod(x, y)
    IN  IF ~d.ok THEN Raised(d.err) ELSE Power(self.b * d.v, self.degree)

\* (self.b + x.dot(y.T)) ** self.degree
PolyFormula(self, x, y) ==
    LET d == DotMethod(x, y)
    IN  IF ~d.ok THEN Raised(d.err) ELSE Power(self.b + d.v, self.degree)

\* np.exp(-self.gamma * np.linalg.norm(x - y, ord=2)**2)
GaussianFormula(self, x, y) ==
    LET d == Subtract(x, y)
    IN  IF ~d.ok THEN Raised(d.err)
        ELSE Value(ExpVal(RatMul(RatNeg(self.gamma), RatInt(Norm2Sq(d.v)))))

\* np.exp(-self.gamma * np.sum(np.abs(x - y)))
LaplacianFormula(self, x, y) ==
    LET d == Subtract(x, y)
    IN  IF ~d.ok THEN Raised(d.err)
        ELSE Value(ExpVal(RatMul(RatNeg(self.gamma), RatInt(SumAbs(d.v)))))

\* np.tanh(self.offset + (self.gamma * np.dot(x, y)))
SigmoidFormula(self, x, y) ==
    LET d == NpDot(x, y)
    IN  IF ~d.ok THEN Raised(d.err)
        ELSE Value(TanhVal(RatAdd(self.offset, RatMul(self.gamma, RatInt(d.v)))))

\* x.dot(y.T)
LinearFormula(self, x, y) ==
    LET d == DotMethod(x, y)
    IN  IF ~d.ok THEN Raised(d.err) ELSE Value(NumVal(RatInt(d.v)))

\* the formula line of the class of self
Formula(self, x, y) ==
    CASE self.name = "polynomial" -> PolyFormula(self, x, y)
      [] self.name = "gaussian"   -> GaussianFormula(self, x, y)
      [] self.name = "laplacian"  -> LaplacianFormula(self, x, y)
      [] self.name = "sigmoid"    -> SigmoidFormula(self, x, y)
      [] self.name = "linear"     -> LinearFormula(self, x, y)

\* faulty variant of SelfAfterCall: a call switches later validation off
SelfAfterCallCachingCheck(self) == [self EXCEPT !.skip_input_checks = TRUE]

\* the fields of self when __call__ or __str__ returns: neither assigns any
SelfAfterCall(self) == self

(***************************************************************************)
(* __str__: the name and the (parameter, value) pairs in the order of the  *)
(* format string.                                                          *)
(***************************************************************************)
Param(key, val) == [key |-> key, val |-> val]

Described(name, params) == [name |-> name, params |-> params]

Str(self) ==
    CASE self.name = "polynomial" ->
            Described(self.name, <<Param("degree", RatInt(self.degree)),
                                   Param("b", RatInt(self.b))>>)
      [] self.name = "gaussian"   ->
            Described(self.name, <<Param("sigma", self.sigma)>>)
      [] self.name = "laplacian"  ->
            Described(self.name, <<Param("gamma", self.gamma)>>)
      [] self.name = "sigmoid"    ->
            Described(self.name, <<Param("gamma", self.gamma),
                                   Param("offset", self.offset)>>)
      [] self.name = "linear"     -> Described(self.name, <<>>)

NoDesc == Described("none", <<>>)

(***************************************************************************)
(* The module-level registry: a tuple of references to five instances      *)
(* built with the constructors' default arguments when the module loads.   *)
(***************************************************************************)
RegistryRefs == <<"r1", "r2", "r3", "r4", "r5">>

UserRef == "user"

Refs == {RegistryRefs[i] : i \in DOMAIN RegistryRefs} \cup {UserRef}

\* faulty variant of DefinedKernelFuncs: the order of the tests' SupportedKernels
DefinedKernelFuncsTestOrder ==
    <<GaussianInit(RatInt(2), FALSE).v,
      PolyInit(2, 0, FALSE).v,
      LinearInit(FALSE).v,
      LaplacianInit(RatInt(1), FALSE).v,
      SigmoidInit(RatInt(1), RatInt(1), FALSE).v>>

\* DEFINED_KERNEL_FUNCS = (PolyKernel(), GaussianKernel(), LaplacianKernel(),
\*                         LinearKernel(), SigmoidKernel())
DefinedKernelFuncs ==
    <<PolyInit(2, 0, FALSE).v,
      GaussianInit(RatInt(2), FALSE).v,
      LaplacianInit(RatInt(1), FALSE).v,
      LinearInit(FALSE).v,
      SigmoidInit(RatInt(1), RatInt(1), FALSE).v>>

NoKernel == [name |-> "none", skip_input_checks |-> FALSE]

NoCtor == [name |-> "none", args |-> <<>>, err |-> "none"]

(***************************************************************************)
(* Parameter values the callers construct kernels with.                    *)
(***************************************************************************)
Degrees == {-1, 0, 1, 2, 3}

Intercepts == {-1, 0, 1}

Sigmas == {Rat(-1, 1), Rat(0, 1), Rat(1, 2), Rat(1, 1), Rat(2, 1), Rat(3, 1)}

LaplacianGammas == {Rat(-1, 1), Rat(0, 1), Rat(1, 2), Rat(2, 1)}

SigmoidGammas == {Rat(-1, 1), Rat(0, 1), Rat(1, 1)}

Offsets == {Rat(0, 1), Rat(1, 1)}

(***************************************************************************)
(* State.                                                                  *)
(*   objs                  the kernel objects alive, by reference          *)
(*   DEFINED_KERNEL_FUNCS  the registry tuple (references into objs)       *)
(*   ctor                  the constructor call that built objs[UserRef]   *)
(*   call                  per caller: its position in __call__, the       *)
(*                         arguments, the locals x, y after validation,    *)
(*                         the outcome, and the outcome of the call before *)
(*   pool                  the inputs callers pass                         *)
(***************************************************************************)
Fresh ==
    [pc |-> "ready", target |-> "none", x |-> NoInput, y |-> NoInput,
     lx |-> NoInput, ly |-> NoInput, mode |-> "none", res |-> NoResult,
     prev |-> NoResult, arith |-> FALSE, desc |-> NoDesc]

InitObjs ==
    [r \in Refs |->
        IF r = UserRef THEN NoKernel
        ELSE DefinedKernelFuncs[CHOOSE i \in DOMAIN RegistryRefs : RegistryRefs[i] = r]]

InitCommon ==
    /\ objs = InitObjs
    /\ DEFINED_KERNEL_FUNCS = RegistryRefs
    /\ ctor = NoCtor

\* one caller, every input
Init ==
    /\ InitCommon
    /\ call = [c \in {"t1"} |-> Fresh]
    /\ pool = AllInputs

\* two concurrent callers sharing the kernels, a few inputs
ConcurrentPool ==
    {NumericArray(<<1, 0>>), NumericArray(<<0, 1>>), StringInput}

InitConcurrent ==
    /\ InitCommon
    /\ call = [c \in {"t1", "t2"} |-> Fresh]
    /\ pool = ConcurrentPool

Callers == DOMAIN call

\* a caller uses the kernel it constructed, or else the registry's
Targets ==
    IF objs[UserRef].name # "none" THEN {UserRef}
    ELSE {DEFINED_KERNEL_FUNCS[i] : i \in DOMAIN DEFINED_KERNEL_FUNCS}

(***************************************************************************)
(* Construction of the caller's own kernel.                                *)
(***************************************************************************)
Built(r, name, args) ==
    /\ objs[UserRef].name = "none"
    /\ \A c \in Callers : call[c] = Fresh
    /\ objs' = IF r.ok THEN [objs EXCEPT ![UserRef] = r.v] ELSE objs
    /\ ctor' = [name |-> name, args |-> args, err |-> r.err]
    /\ UNCHANGED <<DEFINED_KERNEL_FUNCS, call, pool>>

ConstructPoly ==
    \E degree \in Degrees, b \in Intercepts, skip \in BOOLEAN :
        Built(PolyInit(degree, b, skip), "polynomial", <<RatInt(degree), RatInt(b)>>)

ConstructGaussian ==
    \E sigma \in Sigmas, skip \in BOOLEAN :
        Built(GaussianInit(sigma, skip), "gaussian", <<sigma>>)

ConstructLaplacian ==
    \E gamma \in LaplacianGammas, skip \in BOOLEAN :
        Built(LaplacianInit(gamma, skip), "laplacian", <<gamma>>)

ConstructSigmoid ==
    \E gamma \in SigmoidGammas, offset \in Offsets, skip \in BOOLEAN :
        Built(SigmoidInit(gamma, offset, skip), "sigmoid", <<gamma, offset>>)

ConstructLinear ==
    \E skip \in BOOLEAN : Built(LinearInit(skip), "linear", <<>>)

(***************************************************************************)
(* __call__(x, y), in two steps: the validation guard, then the formula.   *)
(***************************************************************************)
\* entry of __call__ up to the formula line
Enter(c, t, x, y, mode, prev) ==
    LET self == objs[t]
        checked == CheckInputArrays(x, y)
        frame == [Fresh EXCEPT !.target = t, !.x = x, !.y = y, !.mode = mode,
                               !.prev = prev]
    IN  IF ChecksEnabled(self) /\ ~checked.ok
            THEN \* check_input_arrays raises: the call is over
                 /\ call' = [call EXCEPT ![c] = [frame EXCEPT !.res = Raised(checked.err)]]
                 /\ objs' = [objs EXCEPT ![t] = SelfAfterCall(self)]
            ELSE /\ call' = [call EXCEPT ![c] =
                        [frame EXCEPT !.pc = "formula",
                                      !.lx = IF ChecksEnabled(self) THEN checked.v[1] ELSE x,
                                      !.ly = IF ChecksEnabled(self) THEN checked.v[2] ELSE y]]
                 /\ objs' = objs

\* kernel(x, y) on fresh arguments
Call(c) ==
    /\ call[c] = Fresh
    /\ \E t \in Targets, x \in pool, y \in pool :
            Enter(c, t, x, y, "fresh", NoResult)
    /\ UNCHANGED <<DEFINED_KERNEL_FUNCS, ctor, pool>>

Returned(c) == call[c].pc = "ready" /\ call[c].mode = "fresh"

\* kernel(y, x) after kernel(x, y)
CallSwapped(c) ==
    /\ Returned(c)
    /\ Enter(c, call[c].target, call[c].y, call[c].x, "swapped", call[c].res)
    /\ UNCHANGED <<DEFINED_KERNEL_FUNCS, ctor, pool>>

\* kernel(x, y) once more
CallAgain(c) ==
    /\ Returned(c)
    /\ Enter(c, call[c].target, call[c].x, call[c].y, "again", call[c].res)
    /\ UNCHANGED <<DEFINED_KERNEL_FUNCS, ctor, pool>>

\* the registry's LinearKernel on the arguments just given to a PolyKernel
CallLinear(c) ==
    /\ Returned(c)
    /\ objs[call[c].target].name = "polynomial"
    /\ \E i \in DOMAIN DEFINED_KERNEL_FUNCS :
            /\ objs[DEFINED_KERNEL_FUNCS[i]].name = "linear"
            /\ Enter(c, DEFINED_KERNEL_FUNCS[i], call[c].x, call[c].y, "linear",
                     call[c].res)
    /\ UNCHANGED <<DEFINED_KERNEL_FUNCS, ctor, pool>>

\* the formula line and the return
Compute(c) ==
    /\ call[c].pc = "formula"
    /\ LET self == objs[call[c].target]
       IN  /\ call' = [call EXCEPT ![c] =
                    [@ EXCEPT !.pc = "ready", !.lx = NoInput, !.ly = NoInput,
                              !.arith = TRUE,
                              !.res = Formula(self, call[c].lx, call[c].ly)]]
           /\ objs' = [objs EXCEPT ![call[c].target] = SelfAfterCall(self)]
    /\ UNCHANGED <<DEFINED_KERNEL_FUNCS, ctor, pool>>

\* str(kernel)
Describe(c) ==
    /\ call[c] = Fresh
    /\ \E t \in Targets :
            /\ call' = [call EXCEPT ![c] =
                    [Fresh EXCEPT !.target = t, !.mode = "describe",
                                  !.desc = Str(objs[t])]]
            /\ objs' = [objs EXCEPT ![t] = SelfAfterCall(objs[t])]
    /\ UNCHANGED <<DEFINED_KERNEL_FUNCS, ctor, pool>>

\* the caller drops the outcome it holds and is ready for anything
Forget(c) ==
    /\ call[c].pc = "ready"
    /\ call[c] # Fresh
    /\ call' = [call EXCEPT ![c] = Fresh]
    /\ UNCHANGED <<objs, DEFINED_KERNEL_FUNCS, ctor, pool>>

Next ==
    \/ ConstructPoly
    \/ ConstructGaussian
    \/ ConstructLaplacian
    \/ ConstructSigmoid
    \/ ConstructLinear
    \/ \E c \in Callers : Call(c)
    \/ \E c \in Callers : CallSwapped(c)
    \/ \E c \in Callers : CallAgain(c)
    \/ \E c \in Callers : CallLinear(c)
    \/ \E c \in Callers : Compute(c)
    \/ \E c \in Callers : Describe(c)
    \/ \E c \in Callers : Forget(c)

Spec == Init /\ [][Next]_vars

SpecConcurrent == InitConcurrent /\ [][Next]_vars

(***************************************************************************)
(* Vocabulary of the properties.                                           *)
(***************************************************************************)
\* two numeric sample vectors of equal length
ValidPair(x, y) ==
    /\ IsArray(x) /\ IsArray(y)
    /\ IsNumeric(x) /\ IsNumeric(y)
    /\ Len(x.data) = Len(y.data)

\* caller c holds the outcome of a finished kernel(x, y)
Finished(c) ==
    /\ call[c].pc = "ready"
    /\ call[c].mode \in {"fresh", "swapped", "again", "linear"}

Kernel(c) == objs[call[c].target]

\* the inner product, summed from the last index down
RECURSIVE RefDot(_, _, _)
RefDot(u, v, n) == IF n = 0 THEN 0 ELSE RefDot(u, v, n - 1) + u[n] * v[n]

\* r^k for a rational r and k >= 0
RECURSIVE RefPow(_, _)
RefPow(r, k) == IF k = 0 THEN <<1, 1>> ELSE RatMul(r, RefPow(r, k - 1))

\* base^degree where it is defined (degree >= 0 or base # 0)
RefPower(base, degree) ==
    IF degree >= 0 THEN RefPow(RatInt(base), degree)
    ELSE RefPow(Rat(1, base), -degree)

(***************************************************************************)
(* C1  Symmetry: on two numeric vectors of equal length, kernel(y, x)      *)
(* gives the same outcome as kernel(x, y), for every kernel and every      *)
(* parameter setting.                                                      *)
(***************************************************************************)
C1_Symmetry ==
    \A c \in Callers :
        (Finished(c) /\ call[c].mode = "swapped" /\ ValidPair(call[c].x, call[c].y))
            => call[c].res = call[c].prev

C1_Witness ==
    \E c \in Callers :
        /\ Finished(c) /\ call[c].mode = "swapped"
        /\ ValidPair(call[c].x, call[c].y)
        /\ call[c].x # call[c].y
        /\ Kernel(c).name = "laplacian"
        /\ call[c].res.kind = "value" /\ call[c].res.val.fn = "exp"

(***************************************************************************)
(* C2  Type rejection: with checks enabled, a call on two non-numeric      *)
(* inputs ('string', a boolean tuple, a list of objects) ends in the       *)
(* validation error, the formula line is never reached and no value is     *)
(* returned.                                                               *)
(***************************************************************************)
C2_TypeRejection ==
    \A c \in Callers :
        (/\ call[c].mode \in {"fresh", "swapped", "again", "linear"}
         /\ ~Kernel(c).skip_input_checks
         /\ call[c].x \in NonNumericInputs
         /\ call[c].y \in NonNumericInputs)
            => /\ call[c].pc = "ready"
               /\ call[c].res = Raised("validation_error")
               /\ ~call[c].arith

C2_Witness ==
    \E c \in Callers :
        /\ Finished(c)
        /\ ~Kernel(c).skip_input_checks
        /\ Kernel(c).name = "gaussian"
        /\ call[c].x = BoolTupleInput /\ call[c].y = ObjectListInput
        /\ call[c].res.kind = "validation_error"

(***************************************************************************)
(* C3  As claimed: every stored scale/bandwidth parameter (Gaussian sigma  *)
(* and derived scale, Laplacian gamma, Sigmoid gamma) is >= eps > 0.       *)
(***************************************************************************)
C3_AllScalesFloored ==
    \A r \in Refs :
        /\ objs[r].name = "gaussian" =>
                RatLeq(Eps, objs[r].sigma) /\ RatLeq(Eps, objs[r].gamma)
        /\ objs[r].name \in {"laplacian", "sigmoid"} => RatLeq(Eps, objs[r].gamma)

(***************************************************************************)
(* C3  As amended: the Gaussian's sigma and its derived scale are          *)
(* >= eps > 0 in every state, whatever sigma it was constructed with; the  *)
(* Laplacian's and the Sigmoid's gamma are stored exactly as given.        *)
(***************************************************************************)
C3_GaussianScalesFloored ==
    /\ RatLt(<<0, 1>>, Eps)
    /\ \A r \in Refs :
            objs[r].name = "gaussian" =>
                RatLeq(Eps, objs[r].sigma) /\ RatLeq(Eps, objs[r].gamma)
    /\ (ctor.name \in {"laplacian", "sigmoid"} /\ ctor.err = "none")
            => objs[UserRef].gamma = ctor.args[1]

C3_Witness ==
    /\ ctor.name = "gaussian"
    /\ RatLt(ctor.args[1], <<0, 1>>)
    /\ objs[UserRef].name = "gaussian"
    /\ objs[UserRef].sigma = Eps

(***************************************************************************)
(* C4  Epsilon flooring for Gaussian: for every sigma >= 0 the constructor *)
(* does not fail, stores max(sigma, eps) and the strictly positive scale   *)
(* max(1/(2 sigma_floored^2), eps), and no call on a valid pair fails.     *)
(***************************************************************************)
C4_GaussianEpsilonFlooring ==
    (ctor.name = "gaussian" /\ RatLeq(<<0, 1>>, ctor.args[1])) =>
        LET given == ctor.args[1]
            self == objs[UserRef]
            s == IF RatLt(given, Eps) THEN Eps ELSE given
            raw == Rat(s[2] * s[2], 2 * s[1] * s[1])
        IN  /\ ctor.err = "none"
            /\ self.name = "gaussian"
            /\ self.sigma = s
            /\ self.gamma = (IF RatLt(raw, Eps) THEN Eps ELSE raw)
            /\ RatLt(<<0, 1>>, self.gamma)
            /\ \A c \in Callers :
                    (Finished(c) /\ call[c].target = UserRef
                        /\ ValidPair(call[c].x, call[c].y))
                        => call[c].res.kind = "value"

C4_Witness ==
    /\ ctor.name = "gaussian" /\ ctor.args[1] = <<0, 1>>
    /\ \E c \in Callers :
            /\ Finished(c) /\ call[c].target = UserRef
            /\ ValidPair(call[c].x, call[c].y)
            /\ call[c].x # call[c].y
            /\ call[c].res.kind = "value"

(***************************************************************************)
(* C5  As claimed: with checks enabled, every call on two numeric vectors  *)
(* of equal length returns a real scalar, for every kernel and every       *)
(* parameter setting the constructor accepts.                              *)
(***************************************************************************)
C5_EvaluateTotal ==
    \A c \in Callers :
        (Finished(c) /\ ~Kernel(c).skip_input_checks
            /\ ValidPair(call[c].x, call[c].y))
            => call[c].res.kind = "value"

(***************************************************************************)
(* C6  Degenerate equivalence: on two numeric vectors of equal length,     *)
(* LinearKernel() returns exactly what PolyKernel(degree=1, b=0) returns.  *)
(***************************************************************************)
C6_DegenerateEquivalence ==
    \A c \in Callers :
        (/\ Finished(c) /\ call[c].mode = "linear"
         /\ objs[UserRef].name = "polynomial"
         /\ objs[UserRef].degree = 1 /\ objs[UserRef].b = 0
         /\ ValidPair(call[c].x, call[c].y))
            => /\ call[c].res.kind = "value"
               /\ call[c].res = call[c].prev

C6_Witness ==
    \E c \in Callers :
        /\ Finished(c) /\ call[c].mode = "linear"
        /\ objs[UserRef].name = "polynomial"
        /\ objs[UserRef].degree = 1 /\ objs[UserRef].b = 0
        /\ ValidPair(call[c].x, call[c].y)
        /\ call[c].prev = Value(NumVal(<<-1, 1>>))

(***************************************************************************)
(* C7  Formula correctness: on two numeric vectors of equal length the     *)
(* linear kernel returns the dot product and the polynomial kernel         *)
(* (b + x.y)^degree; on x = [1,0], y = [0,1], Linear gives 0 and           *)
(* Polynomial(degree=2, b=1) gives 1.                                      *)
(***************************************************************************)
C7_FormulaCorrectness ==
    \A c \in Callers :
        (Finished(c) /\ ValidPair(call[c].x, call[c].y)) =>
            LET self == Kernel(c)
                u == call[c].x.data
                v == call[c].y.data
                d == RefDot(u, v, Len(u))
            IN  /\ self.name = "linear" => call[c].res = Value(NumVal(RatInt(d)))
                /\ (self.name = "polynomial" /\ (self.degree >= 0 \/ self.b + d # 0))
                        => call[c].res = Value(NumVal(RefPower(self.b + d, self.degree)))
                /\ (self.name = "linear" /\ u = <<1, 0>> /\ v = <<0, 1>>)
                        => call[c].res.val = NumVal(<<0, 1>>)
                /\ (self.name = "polynomial" /\ self.degree = 2 /\ self.b = 1
                        /\ u = <<1, 0>> /\ v = <<0, 1>>)
                        => call[c].res.val = NumVal(<<1, 1>>)

C7_Witness ==
    \E c \in Callers :
        /\ Finished(c)
        /\ Kernel(c).name = "polynomial"
        /\ Kernel(c).degree = 2 /\ Kernel(c).b = 1
        /\ call[c].x = NumericArray(<<1, 0>>) /\ call[c].y = NumericArray(<<0, 1>>)
        /\ call[c].res = Value(NumVal(<<1, 1>>))

(***************************************************************************)
(* C9  Registry content and order: the registry always holds exactly five  *)
(* default-constructed instances in the order Polynomial, Gaussian,        *)
(* Laplacian, Linear, Sigmoid, each with skip_input_checks false,          *)
(* whatever calls have been made on its members.                           *)
(***************************************************************************)
C9_RegistryFixed ==
    /\ Len(DEFINED_KERNEL_FUNCS) = 5
    /\ [i \in 1..5 |-> objs[DEFINED_KERNEL_FUNCS[i]]] =
        << [name |-> "polynomial", degree |-> 2, b |-> 0, skip_input_checks |-> FALSE],
           [name |-> "gaussian", sigma |-> <<2, 1>>, gamma |-> <<1, 8>>,
            skip_input_checks |-> FALSE],
           [name |-> "laplacian", gamma |-> <<1, 1>>, skip_input_checks |-> FALSE],
           [name |-> "linear", skip_input_checks |-> FALSE],
           [name |-> "sigmoid", gamma |-> <<1, 1>>, offset |-> <<1, 1>>,
            skip_input_checks |-> FALSE] >>

C9_Witness ==
    /\ \E c \in Callers :
            /\ Finished(c) /\ call[c].mode = "again"
            /\ call[c].target = DEFINED_KERNEL_FUNCS[2]
            /\ call[c].res.kind = "value"
    /\ \E c \in Callers :
            /\ call[c].mode = "describe"
            /\ call[c].target = DEFINED_KERNEL_FUNCS[5]

(***************************************************************************)
(* C10  Instance immutability under use: no step of any call or            *)
(* description, by either caller and in any interleaving, changes a field  *)
(* of a constructed instance, and a repeated kernel(x, y) returns what the *)
(* first returned.                                                         *)
(***************************************************************************)
C10_InstancesImmutable ==
    [][ /\ \A r \in Refs : objs[r].name # "none" => objs'[r] = objs[r]
        /\ \A c \in Callers :
                (call'[c].pc = "ready" /\ call'[c].mode = "again")
                    => call'[c].res = call'[c].prev ]_vars

C10_Witness ==
    \E c1 \in Callers, c2 \in Callers :
        /\ c1 # c2
        /\ call[c1].target = call[c2].target
        /\ call[c1].pc = "formula"
        /\ Finished(c2) /\ call[c2].mode = "again"
        /\ call[c2].res.kind = "validation_error"

====
